---- MODULE Spec2Model ----
(***************************************************************************)
(* A model of pyrenew's hospital admissions components:                    *)
(*                                                                         *)
(*   HospitalAdmissions       (latent/hospitaladmissions.py)               *)
(*   HospitalAdmissionsModel  (model/admissionsmodel.py)                   *)
(*                                                                         *)
(* Numbers are exact integers.  Where a scenario uses fractions (a rate of *)
(* 0.1, a delay pmf of [0.5, 0.5]) the model holds the numerators over a   *)
(* fixed denominator; convolution and elementwise products are linear, so  *)
(* the scaled result is the result times the product of the denominators.  *)
(***************************************************************************)
EXTENDS Integers, Sequences, FiniteSets, TLC

\* ------------------------------------------------------------------ bounds
MaxInfLen == 3      \* longest latent infection series handed to HospitalAdmissions.sample
MaxDelayLen == 2    \* longest sampled delay pmf
MaxVecLen == 2      \* longest sampled rate / weekday / reporting array
MaxTimepoints == 2  \* largest n_timepoints_to_simulate, longest observed series
MaxI0 == 2          \* longest initialization period of the renewal model
MaxPad == 3         \* largest padding argument

\* ------------------------------------------------------------------ values
\* A sampled value or an argument: None, a 0-d scalar or a 1-d array.
None == [kind |-> "none", data |-> <<>>]
Scalar(x) == [kind |-> "scalar", data |-> <<x>>]
Array(s) == [kind |-> "array", data |-> s]
\* What an operation that raises yields: the exception's type is in kind.
Raised(e) == [kind |-> e, data |-> <<>>]

IsNum(v) == v.kind \in {"scalar", "array"}
IsErr(v) == ~(v.kind \in {"none", "scalar", "array"})

Min(a, b) == IF a < b THEN a ELSE b
Max(a, b) == IF a > b THEN a ELSE b

\* All sequences over S of length lo..hi.
SeqsOf(S, lo, hi) == UNION {[1..n -> S] : n \in lo..hi}

\* ------------------------------------------------- numeric array operations
\* Elementwise product with the array type's broadcasting: a scalar
\* broadcasts to anything; two 1-d arrays must have equal lengths unless one
\* has length 1, which is stretched to the other's length.
Mul(a, b) ==
    IF IsErr(a) THEN a
    ELSE IF IsErr(b) THEN b
    ELSE IF ~IsNum(a) \/ ~IsNum(b) THEN Raised("TypeError")
    ELSE IF a.kind = "scalar" /\ b.kind = "scalar"
        THEN Scalar(a.data[1] * b.data[1])
    ELSE IF a.kind = "scalar"
        THEN Array([i \in 1..Len(b.data) |-> a.data[1] * b.data[i]])
    ELSE IF b.kind = "scalar"
        THEN Array([i \in 1..Len(a.data) |-> a.data[i] * b.data[1]])
    ELSE IF Len(a.data) = Len(b.data)
        THEN Array([i \in 1..Len(a.data) |-> a.data[i] * b.data[i]])
    ELSE IF Len(a.data) = 1
        THEN Array([i \in 1..Len(b.data) |-> a.data[1] * b.data[i]])
    ELSE IF Len(b.data) = 1
        THEN Array([i \in 1..Len(a.data) |-> a.data[i] * b.data[1]])
    ELSE Raised("TypeError")

\* sum of a[j] * v[k - j + 1] over the j in lo..Len(a) for which both exist
\* (1-based: entry k of the full convolution).
RECURSIVE ConvTerm(_, _, _, _)
ConvTerm(a, v, k, j) ==
    IF j > Len(a) THEN 0
    ELSE (IF k - j + 1 >= 1 /\ k - j + 1 <= Len(v) THEN a[j] * v[k - j + 1] ELSE 0)
         + ConvTerm(a, v, k, j + 1)

\* jnp.convolve(a, v, mode="full"): both inputs 1-d and non-empty, else
\* ValueError; the result has Len(a) + Len(v) - 1 entries.
ConvolveFull(a, v) ==
    IF IsErr(a) THEN a
    ELSE IF IsErr(v) THEN v
    ELSE IF a.kind # "array" \/ v.kind # "array" THEN Raised("ValueError")
    ELSE IF Len(a.data) = 0 \/ Len(v.data) = 0 THEN Raised("ValueError")
    ELSE Array([k \in 1..(Len(a.data) + Len(v.data) - 1) |-> ConvTerm(a.data, v.data, k, 1)])

\* Keeps the last n entries: the tail of the convolution instead of its head.
TakeLast(x, n) ==
    IF IsErr(x) THEN x
    ELSE Array(SubSeq(x.data, Len(x.data) - Min(n, Len(x.data)) + 1, Len(x.data)))

\* x[:n] with n >= 0.
Truncate(x, n) ==
    IF IsErr(x) THEN x
    ELSE Array(SubSeq(x.data, 1, Min(n, Len(x.data))))

\* x.shape[0] of a 1-d array.
Shape0(x) == IF x.kind = "array" THEN Len(x.data) ELSE 0

\* ------------------------------------------------------------------ state
VARIABLES
    ha_pc,          \* HospitalAdmissions: "new", "constructed", "ctor_failed", "returned", "raised"
    ha_ctor_args,   \* the four handles given to HospitalAdmissions.__init__
    ha_rvs,         \* the object's four handle fields (set by a successful __init__)
    ha_in,          \* last sample call: latent_infections and what each sub-process drew
    ha_out,         \* last sample call: the exception raised or the returned tuple
    ha_registered   \* last sample call: the npro.deterministic registrations

ha_vars == <<ha_pc, ha_ctor_args, ha_rvs, ha_in, ha_out, ha_registered>>

\* -------------------------------------------------- HospitalAdmissions
\* What a caller can hand over as a sub-process: an instance of
\* RandomVariable ("RV"), an object that has a sample method but is no
\* RandomVariable ("duck"), an object with neither ("plain"), or, for the
\* two optional ones, None.  "default" is the DeterministicVariable(1, ...)
\* the constructor puts in place of None.
RequiredHandles == {"RV", "duck", "plain"}
OptionalHandles == RequiredHandles \cup {"None"}

IsRandomVariable(h) == h \in {"RV", "default"}
HasSample(h) == h \in {"RV", "default", "duck"}

NoHandles == [rate |-> "unset", delay |-> "unset", dow |-> "unset", prob |-> "unset"]
NoIn == [I |-> None, r |-> None, d |-> None, w |-> None, p |-> None]
NoOut == [err |-> "none", infection_hosp_rate |-> None, latent_hospital_admissions |-> None]

\* The assertions of validate without the one on hosp_report_prob_rv.
ValidateSkipsProb(infect_hosp_rate_rv, day_of_week_effect_rv, hosp_report_prob_rv) ==
    /\ IsRandomVariable(infect_hosp_rate_rv)
    /\ IsRandomVariable(day_of_week_effect_rv)

\* HospitalAdmissions.validate: TRUE iff no assertion fails.
Validate(infect_hosp_rate_rv, day_of_week_effect_rv, hosp_report_prob_rv) ==
    /\ IsRandomVariable(infect_hosp_rate_rv)
    /\ IsRandomVariable(day_of_week_effect_rv)
    /\ IsRandomVariable(hosp_report_prob_rv)

\* None becomes the default DeterministicVariable(1, ...).
OrDefault(h) == IF h = "None" THEN "default" ELSE h

\* HospitalAdmissions.__init__
HAInit ==
    /\ ha_pc = "new"
    /\ \E interval \in RequiredHandles, rate \in RequiredHandles,
          dow \in OptionalHandles, prob \in OptionalHandles :
        /\ ha_ctor_args' = [rate |-> rate, delay |-> interval, dow |-> dow, prob |-> prob]
        /\ IF Validate(rate, OrDefault(dow), OrDefault(prob))
           THEN /\ ha_pc' = "constructed"
                /\ ha_rvs' = [rate |-> rate, delay |-> interval,
                              dow |-> OrDefault(dow), prob |-> OrDefault(prob)]
           ELSE /\ ha_pc' = "ctor_failed"
                /\ ha_rvs' = NoHandles
    /\ UNCHANGED <<ha_in, ha_out, ha_registered>>

\* The body of HospitalAdmissions.sample on latent_infections I, where the
\* rate, delay, weekday and reporting sub-processes draw r, d, w and p.
\* An exception raised on the way propagates: the result's kind is its type.
HASampleSeries(rvs, I, r, d, w, p) ==
    LET infection_hosp_rate_t == Mul(r, I)
        \* an object without a sample method: AttributeError at the call
        interval == IF HasSample(rvs.delay) THEN d ELSE Raised("AttributeError")
        conv == Truncate(ConvolveFull(infection_hosp_rate_t, interval),
                         Shape0(infection_hosp_rate_t))
    IN  Mul(Mul(conv, w), p)

\* The values the sub-processes can draw.
RateDraws == {Scalar(x) : x \in {1, 2}} \cup {Array([i \in 1..n |-> 1]) : n \in 0..MaxVecLen}
DelayDraws == {Array(s) : s \in SeqsOf({1, 2}, 0, MaxDelayLen)} \cup {Scalar(1)}
DowDraws == {Scalar(x) : x \in {1, 2}} \cup {Array([i \in 1..n |-> i]) : n \in 1..MaxVecLen}
ProbDraws == {Scalar(x) : x \in {0, 1}} \cup {Array([i \in 1..n |-> 1]) : n \in 1..MaxVecLen}
\* DeterministicVariable(1, ...) draws 1, as a scalar or as a one-entry array.
DefaultDraws == {Scalar(1), Array(<<1>>)}
Infections == {Array(s) : s \in SeqsOf({1, 100}, 0, MaxInfLen)}

DrawsOf(h, draws) == IF h = "default" THEN DefaultDraws ELSE draws

\* HospitalAdmissions.sample
HASample ==
    /\ ha_pc = "constructed"
    /\ \E I \in Infections, r \in RateDraws,
          d \in (IF HasSample(ha_rvs.delay) THEN DelayDraws ELSE {None}),
          w \in DrawsOf(ha_rvs.dow, DowDraws), p \in DrawsOf(ha_rvs.prob, ProbDraws) :
        LET H == HASampleSeries(ha_rvs, I, r, d, w, p)
        IN  /\ ha_in' = [I |-> I, r |-> r, d |-> d, w |-> w, p |-> p]
            /\ IF IsErr(H)
               THEN /\ ha_pc' = "raised"
                    /\ ha_out' = [NoOut EXCEPT !.err = H.kind]
                    /\ ha_registered' = <<>>
               ELSE /\ ha_pc' = "returned"
                    /\ ha_out' = [err |-> "none", infection_hosp_rate |-> r,
                                  latent_hospital_admissions |-> H]
                    /\ ha_registered' =
                           <<[name |-> "latent_hospital_admissions", value |-> H]>>
    /\ UNCHANGED <<ha_ctor_args, ha_rvs>>

\* The call is over: its locals are gone and the object, which sample never
\* changes, can be sampled again.
HADone ==
    /\ ha_pc \in {"returned", "raised"}
    /\ ha_pc' = "constructed"
    /\ ha_in' = NoIn
    /\ ha_out' = NoOut
    /\ ha_registered' = <<>>
    /\ UNCHANGED <<ha_ctor_args, ha_rvs>>

\* ---------------------------------------------- HospitalAdmissionsModel
VARIABLES
    m_pc,           \* "new", "ready", then the position in sample: "checked",
                    \* "basic_done", "latent_done", "obs_done", "returned", "raised"
    hosp_admission_obs_process_rv,  \* the object's field: "None" or "RV"
    m_args,         \* sample's arguments
    n_timepoints,   \* sample's locals, -1 or None while unset
    basic_model,
    infection_hosp_rate,
    latent_hosp_admissions,
    i0_size,
    observed_hosp_admissions,
    m_calls,        \* the collaborators' sample calls of this call, in order
    m_registered,   \* the npro.deterministic registrations of this call
    m_err,          \* the exception this call ended in, or "none"
    m_result        \* the HospModelSample returned, or None

m_locals == <<n_timepoints, basic_model, infection_hosp_rate, latent_hosp_admissions,
              i0_size, observed_hosp_admissions>>
m_vars == <<m_pc, hosp_admission_obs_process_rv, m_args, m_locals, m_calls,
            m_registered, m_err, m_result>>
vars == <<ha_vars, m_vars>>

\* jnp.nan, the fill value of the left padding; observed counts are >= 0.
NaN == -1

NoArgs == [n_timepoints_to_simulate |-> None, data_observed_hosp_admissions |-> None,
           padding |-> 0]
NoBasic == [Rt |-> None, latent_infections |-> None]

\* x[start:] for a 1-d array: a negative start counts from the end, and
\* the start is clipped to the array.
SliceFrom(x, start) ==
    LET n == Len(x.data)
        st == IF start < 0 THEN Max(n + start, 0) ELSE Min(start, n)
    IN  Array(SubSeq(x.data, st + 1, n))

\* arrayutils.pad_x_to_match_y(x, y, fill_value, pad_direction): x padded
\* with fill_value, at its start or its end, to the length of y.
PadXToMatchY(x, y, fill_value, pad_direction) ==
    LET k == Len(y.data) - Len(x.data)
        fill == [i \in 1..Max(k, 0) |-> fill_value]
    IN  IF pad_direction = "start" THEN Array(fill \o x.data) ELSE Array(x.data \o fill)

\* The argument check without its first branch: with neither argument the
\* code reaches len(None).
ResolveNoNeitherCheck(n_timepoints_to_simulate, data_observed_hosp_admissions) ==
    IF n_timepoints_to_simulate # None /\ data_observed_hosp_admissions # None
        THEN [err |-> "ConfigError", n |-> -1]
    ELSE IF n_timepoints_to_simulate = None
        THEN IF data_observed_hosp_admissions = None
             THEN [err |-> "TypeError", n |-> -1]
             ELSE [err |-> "none", n |-> Len(data_observed_hosp_admissions.data)]
    ELSE [err |-> "none", n |-> n_timepoints_to_simulate.data[1]]

\* The argument check without its second branch: with both arguments the
\* explicit value is taken.
ResolveNoBothCheck(n_timepoints_to_simulate, data_observed_hosp_admissions) ==
    IF n_timepoints_to_simulate = None /\ data_observed_hosp_admissions = None
        THEN [err |-> "ConfigError", n |-> -1]
    ELSE IF n_timepoints_to_simulate = None
        THEN [err |-> "none", n |-> Len(data_observed_hosp_admissions.data)]
    ELSE [err |-> "none", n |-> n_timepoints_to_simulate.data[1]]

\* The argument check at the head of sample: the ValueError raised
\* ("ConfigError") or the n_timepoints resolved.
ResolveTimepoints(n_timepoints_to_simulate, data_observed_hosp_admissions) ==
    IF n_timepoints_to_simulate = None /\ data_observed_hosp_admissions = None
        THEN [err |-> "ConfigError", n |-> -1]
    ELSE IF n_timepoints_to_simulate # None /\ data_observed_hosp_admissions # None
        THEN [err |-> "ConfigError", n |-> -1]
    ELSE IF n_timepoints_to_simulate = None
        THEN [err |-> "none", n |-> Len(data_observed_hosp_admissions.data)]
    ELSE [err |-> "none", n |-> n_timepoints_to_simulate.data[1]]

\* A call of a collaborator's sample, as the log keeps it.
Call(callee, n, padding, infections, mu, obs) ==
    [callee |-> callee, n_timepoints_to_simulate |-> n, padding |-> padding,
     latent_infections |-> infections, mu |-> mu, obs |-> obs]

\* The call of the renewal model with a padding of 0 whatever the caller's.
BasicRenewalCallNoPadding(n, padding) ==
    Call("basic_renewal", n, 0, None, None, None)

\* self.basic_renewal.sample(n_timepoints_to_simulate=n_timepoints,
\* data_observed_infections=None, padding=padding)
BasicRenewalCall(n, padding) ==
    Call("basic_renewal", n, padding, None, None, None)

\* The mean and the observations sliced in simulate mode as in fit mode.
ObsCallArgsAlwaysSliced(data, latent, i0, padding) ==
    IF data = None
    THEN [mu |-> SliceFrom(latent, i0 + padding), obs |-> data]
    ELSE [mu |-> SliceFrom(latent, i0 + padding),
          obs |-> SliceFrom(PadXToMatchY(data, latent, NaN, "start"), i0 + padding)]

\* The fit mode's slices taken at padding, without i0_size.
ObsCallArgsNoI0(data, latent, i0, padding) ==
    IF data = None
    THEN [mu |-> latent, obs |-> data]
    ELSE [mu |-> SliceFrom(latent, padding),
          obs |-> SliceFrom(PadXToMatchY(data, latent, NaN, "start"), padding)]

\* The fit mode's observations padded at their end.
ObsCallArgsPadEnd(data, latent, i0, padding) ==
    IF data = None
    THEN [mu |-> latent, obs |-> data]
    ELSE [mu |-> SliceFrom(latent, i0 + padding),
          obs |-> SliceFrom(PadXToMatchY(data, latent, NaN, "end"), i0 + padding)]

\* What sample hands to sample_admissions_process: in simulate mode the
\* whole latent series and no observations, in fit mode the series and the
\* left-padded observations, both from offset i0_size + padding.
ObsCallArgs(data, latent, i0, padding) ==
    IF data = None
    THEN [mu |-> latent, obs |-> data]
    ELSE [mu |-> SliceFrom(latent, i0 + padding),
          obs |-> SliceFrom(PadXToMatchY(data, latent, NaN, "start"), i0 + padding)]

\* A sample whose observed admissions fall back on the latent series.
HospModelSampleObsFallback(basic, rate, latent, observed) ==
    [Rt |-> basic.Rt, latent_infections |-> basic.latent_infections,
     infection_hosp_rate |-> rate, latent_hosp_admissions |-> latent,
     observed_hosp_admissions |-> IF observed = None THEN latent ELSE observed]

\* The HospModelSample that sample returns.
HospModelSample(basic, rate, latent, observed) ==
    [Rt |-> basic.Rt, latent_infections |-> basic.latent_infections,
     infection_hosp_rate |-> rate, latent_hosp_admissions |-> latent,
     observed_hosp_admissions |-> observed]

\* The arguments a caller can pass to sample.
TimepointArgs == {None} \cup {Scalar(n) : n \in 0..MaxTimepoints}
DataArgs == {None} \cup {Array(s) : s \in SeqsOf({3, 7}, 0, MaxTimepoints)}
Paddings == 0..MaxPad

\* What the renewal model returns for n timepoints: Rt and a latent
\* infection series of n + i0 entries, i0 the length of its initialization
\* period.
BasicRenewalSamples(n) ==
    {[Rt |-> Array([t \in 1..n |-> 1]), latent_infections |-> Array(s)] :
        s \in UNION {{[t \in 1..(n + i0) |-> 100], [t \in 1..(n + i0) |-> 100 * t]} :
                        i0 \in 0..MaxI0}}

\* The latent admissions process of the model: a HospitalAdmissions built
\* with a rate, a delay pmf and the default weekday and reporting effects.
LatentRvs == [rate |-> "RV", delay |-> "RV", dow |-> "default", prob |-> "default"]
LatentRateDraws == {Scalar(1), Scalar(2)}
LatentDelayDraws == {Array(<<1>>), Array(<<1, 1>>)}

\* What the observation process returns: the observations it is
\* conditioned on, or with none a draw around the mean.
ObsProcessSamples(mu, obs) ==
    IF obs # None THEN {obs}
    ELSE {mu, Array([i \in 1..Len(mu.data) |-> mu.data[i] + 1])}

\* HospitalAdmissionsModel.__init__
MConstruct ==
    /\ m_pc = "new"
    /\ m_pc' = "ready"
    /\ \E obs_rv \in {"None", "RV"} : hosp_admission_obs_process_rv' = obs_rv
    /\ UNCHANGED <<m_args, m_locals, m_calls, m_registered, m_err, m_result>>

\* sample, entry: the check of the two time-extent arguments.
MSampleEnter ==
    /\ m_pc \in {"ready", "returned", "raised"}
    /\ \E n \in TimepointArgs, data \in DataArgs, padding \in Paddings :
        /\ m_args' = [n_timepoints_to_simulate |-> n,
                      data_observed_hosp_admissions |-> data, padding |-> padding]
        /\ LET r == ResolveTimepoints(n, data)
           IN  /\ m_pc' = IF r.err = "none" THEN "checked" ELSE "raised"
               /\ m_err' = r.err
               /\ n_timepoints' = r.n
    /\ basic_model' = NoBasic
    /\ infection_hosp_rate' = None
    /\ latent_hosp_admissions' = None
    /\ i0_size' = 0
    /\ observed_hosp_admissions' = None
    /\ m_calls' = <<>>
    /\ m_registered' = <<>>
    /\ m_result' = None
    /\ UNCHANGED hosp_admission_obs_process_rv

\* sample: the renewal model is sampled.
MSampleBasic ==
    /\ m_pc = "checked"
    /\ m_pc' = "basic_done"
    /\ m_calls' = Append(m_calls, BasicRenewalCall(n_timepoints, m_args.padding))
    /\ \E b \in BasicRenewalSamples(n_timepoints) : basic_model' = b
    /\ UNCHANGED <<hosp_admission_obs_process_rv, m_args, n_timepoints, infection_hosp_rate,
                   latent_hosp_admissions, i0_size, observed_hosp_admissions,
                   m_registered, m_err, m_result>>

\* sample: the latent admissions are sampled and i0_size is computed.
MSampleLatent ==
    /\ m_pc = "basic_done"
    /\ m_calls' = Append(m_calls,
            Call("latent", -1, 0, basic_model.latent_infections, None, None))
    /\ \E r \in LatentRateDraws, d \in LatentDelayDraws, w \in DefaultDraws, p \in DefaultDraws :
         LET H == HASampleSeries(LatentRvs, basic_model.latent_infections, r, d, w, p)
         IN  IF IsErr(H)
             THEN /\ m_pc' = "raised"
                  /\ m_err' = H.kind
                  /\ UNCHANGED <<infection_hosp_rate, latent_hosp_admissions, i0_size,
                                 m_registered>>
             ELSE /\ m_pc' = "latent_done"
                  /\ infection_hosp_rate' = r
                  /\ latent_hosp_admissions' = H
                  /\ i0_size' = Len(H.data) - n_timepoints
                  /\ m_registered' = Append(m_registered,
                          [name |-> "latent_hospital_admissions", value |-> H])
                  /\ UNCHANGED m_err
    /\ UNCHANGED <<hosp_admission_obs_process_rv, m_args, n_timepoints, basic_model,
                   observed_hosp_admissions, m_result>>

\* sample: the observation process is sampled, if there is one.
MSampleObs ==
    /\ m_pc = "latent_done"
    /\ m_pc' = "obs_done"
    /\ IF hosp_admission_obs_process_rv = "None"
       THEN /\ observed_hosp_admissions' = None
            /\ UNCHANGED m_calls
       ELSE LET a == ObsCallArgs(m_args.data_observed_hosp_admissions,
                                 latent_hosp_admissions, i0_size, m_args.padding)
            IN  /\ m_calls' = Append(m_calls, Call("obs", -1, 0, None, a.mu, a.obs))
                /\ \E o \in ObsProcessSamples(a.mu, a.obs) : observed_hosp_admissions' = o
    /\ UNCHANGED <<hosp_admission_obs_process_rv, m_args, n_timepoints, basic_model,
                   infection_hosp_rate, latent_hosp_admissions, i0_size,
                   m_registered, m_err, m_result>>

\* sample: the HospModelSample is returned.
MSampleReturn ==
    /\ m_pc = "obs_done"
    /\ m_pc' = "returned"
    /\ m_result' = HospModelSample(basic_model, infection_hosp_rate,
                                   latent_hosp_admissions, observed_hosp_admissions)
    /\ UNCHANGED <<hosp_admission_obs_process_rv, m_args, m_locals, m_calls,
                   m_registered, m_err>>

\* ------------------------------------------------------- specifications
Init ==
    /\ ha_pc = "new"
    /\ ha_ctor_args = NoHandles
    /\ ha_rvs = NoHandles
    /\ ha_in = NoIn
    /\ ha_out = NoOut
    /\ ha_registered = <<>>
    /\ m_pc = "new"
    /\ hosp_admission_obs_process_rv = "unset"
    /\ m_args = NoArgs
    /\ n_timepoints = -1
    /\ basic_model = NoBasic
    /\ infection_hosp_rate = None
    /\ latent_hosp_admissions = None
    /\ i0_size = 0
    /\ observed_hosp_admissions = None
    /\ m_calls = <<>>
    /\ m_registered = <<>>
    /\ m_err = "none"
    /\ m_result = None

\* HospitalAdmissionsModel: construction, then sample calls.
Next ==
    \/ MConstruct /\ UNCHANGED ha_vars
    \/ MSampleEnter /\ UNCHANGED ha_vars
    \/ MSampleBasic /\ UNCHANGED ha_vars
    \/ MSampleLatent /\ UNCHANGED ha_vars
    \/ MSampleObs /\ UNCHANGED ha_vars
    \/ MSampleReturn /\ UNCHANGED ha_vars

Spec == Init /\ [][Next]_vars

\* HospitalAdmissions: construction, then sample calls.
NextHA ==
    \/ HAInit /\ UNCHANGED m_vars
    \/ HASample /\ UNCHANGED m_vars
    \/ HADone /\ UNCHANGED m_vars

SpecHA == Init /\ [][NextHA]_vars

\* ----------------------------------------------------------- properties
\* The state of sample's arguments once a call has been entered.
Entered == m_pc \notin {"new", "ready"}
ArgN == m_args.n_timepoints_to_simulate
ArgData == m_args.data_observed_hosp_admissions
ArgPadding == m_args.padding
BothGiven == ArgN # None /\ ArgData # None
NeitherGiven == ArgN = None /\ ArgData = None
FitMode == ArgN = None /\ ArgData # None
SimulateMode == ArgN # None /\ ArgData = None
ObsConfigured == hosp_admission_obs_process_rv = "RV"

\* The calls of this sample call made to one collaborator.
CallsTo(callee) == {i \in 1..Len(m_calls) : m_calls[i].callee = callee}

\* C1: sample ends in the configuration error exactly when both or neither
\* of n_timepoints_to_simulate and data_observed_hosp_admissions are given;
\* with exactly one given there is no configuration error and n_timepoints
\* is the explicit value, respectively len(data_observed_hosp_admissions).
C1_ConfigErrorIffBothOrNeither ==
    Entered =>
        /\ (m_err = "ConfigError") <=> (BothGiven \/ NeitherGiven)
        /\ (BothGiven \/ NeitherGiven) => m_pc = "raised"
        /\ SimulateMode => n_timepoints = ArgN.data[1]
        /\ FitMode => n_timepoints = Len(ArgData.data)

C1_Witness ==
    /\ m_pc = "checked"
    /\ FitMode
    /\ Len(ArgData.data) = 2
    /\ n_timepoints = 2
    /\ m_err = "none"

\* C2: with both or with neither time-extent argument the call ends in the
\* configuration error before anything is sampled: no collaborator's sample
\* has been called, nothing is registered, no local is set, nothing is
\* returned.
C2_ConfigErrorBeforeSampling ==
    (Entered /\ (BothGiven \/ NeitherGiven)) =>
        /\ m_err = "ConfigError"
        /\ m_calls = <<>>
        /\ m_registered = <<>>
        /\ basic_model = NoBasic
        /\ infection_hosp_rate = None
        /\ latent_hosp_admissions = None
        /\ observed_hosp_admissions = None
        /\ m_result = None

C2_Witness ==
    /\ m_pc = "raised"
    /\ m_err = "ConfigError"
    /\ BothGiven
    /\ ObsConfigured
    /\ m_calls = <<>>
    /\ m_registered = <<>>

\* C3, as claimed: in fit mode, for every padding, the observation process
\* receives mu and obs of equal length, and that length is L - padding.
C3_SlicesHaveLengthLMinusPadding ==
    \A i \in CallsTo("obs") :
        FitMode =>
            /\ Len(m_calls[i].mu.data) = Len(m_calls[i].obs.data)
            /\ Len(m_calls[i].mu.data) = Len(ArgData.data) - ArgPadding

\* C3, amended: in fit mode, for every padding, the observation process
\* receives mu and obs of equal length; that length is L - padding when
\* 0 <= padding <= L, and 0 when padding > L.
C3_SlicesAligned ==
    \A i \in CallsTo("obs") :
        FitMode =>
            /\ m_calls[i].mu.kind = "array"
            /\ m_calls[i].obs.kind = "array"
            /\ Len(m_calls[i].mu.data) = Len(m_calls[i].obs.data)
            /\ (0 <= ArgPadding /\ ArgPadding <= Len(ArgData.data))
                  => Len(m_calls[i].mu.data) = Len(ArgData.data) - ArgPadding
            /\ ArgPadding > Len(ArgData.data) => Len(m_calls[i].mu.data) = 0

C3_Witness ==
    /\ m_pc = "obs_done"
    /\ FitMode
    /\ Len(ArgData.data) = 2
    /\ ArgPadding = 1
    /\ i0_size = 1
    /\ \E i \in CallsTo("obs") :
          Len(m_calls[i].mu.data) = 1 /\ Len(m_calls[i].obs.data) = 1

\* C6: without an observation process every sample call that returns
\* returns observed_hosp_admissions = None, in simulate and in fit mode,
\* the observation process is never sampled, and the other four fields are
\* what the renewal model and the latent admissions process produced.
C6_NoObsProcessGivesNone ==
    (hosp_admission_obs_process_rv = "None" /\ Entered) =>
        /\ CallsTo("obs") = {}
        /\ observed_hosp_admissions = None
        /\ m_pc = "returned" =>
              /\ m_result.observed_hosp_admissions = None
              /\ m_result.Rt = basic_model.Rt
              /\ m_result.Rt.kind = "array"
              /\ m_result.latent_infections = basic_model.latent_infections
              /\ m_result.latent_infections.kind = "array"
              /\ m_result.infection_hosp_rate = infection_hosp_rate
              /\ IsNum(m_result.infection_hosp_rate)
              /\ m_result.latent_hosp_admissions = latent_hosp_admissions
              /\ m_result.latent_hosp_admissions.kind = "array"
              /\ m_calls[2].latent_infections = m_result.latent_infections

C6_Witness ==
    /\ m_pc = "returned"
    /\ hosp_admission_obs_process_rv = "None"
    /\ FitMode
    /\ Len(ArgData.data) = 2
    /\ m_result.observed_hosp_admissions = None
    /\ Len(m_result.latent_hosp_admissions.data) = 3

\* C8: in simulate mode with an observation process, the process is sampled
\* with the whole latent_hosp_admissions series as mu (n_timepoints +
\* i0_size entries, whatever the padding) and with obs = None.
C8_SimulateUsesFullSeries ==
    (SimulateMode /\ ObsConfigured) =>
        /\ m_pc \in {"obs_done", "returned"} => CallsTo("obs") # {}
        /\ \A i \in CallsTo("obs") :
              /\ m_calls[i].mu = latent_hosp_admissions
              /\ Len(m_calls[i].mu.data) = Len(basic_model.latent_infections.data)
              /\ Len(m_calls[i].mu.data) = n_timepoints + i0_size
              /\ i0_size >= 0
              /\ m_calls[i].obs = None

C8_Witness ==
    /\ m_pc = "obs_done"
    /\ SimulateMode
    /\ ObsConfigured
    /\ ArgPadding = 2
    /\ n_timepoints = 2
    /\ \E i \in CallsTo("obs") : Len(m_calls[i].mu.data) = 4 /\ m_calls[i].obs = None

C10_ObservedSliceIsDataTail ==
    \A i \in CallsTo("obs") :
        (FitMode /\ 0 <= ArgPadding /\ ArgPadding <= Len(ArgData.data)) =>
            LET mu == m_calls[i].mu.data
                obs == m_calls[i].obs.data
            IN  /\ i0_size >= 0
                /\ obs = SubSeq(ArgData.data, ArgPadding + 1, Len(ArgData.data))
                /\ \A k \in 1..Len(obs) : obs[k] # NaN
                /\ Len(mu) = Len(obs)
                /\ \A k \in 1..Len(mu) :
                      /\ mu[k] = latent_hosp_admissions.data[i0_size + ArgPadding + k]
                      /\ obs[k] = ArgData.data[ArgPadding + k]

C10_Witness ==
    /\ m_pc = "obs_done"
    /\ FitMode
    /\ ArgData = Array(<<3, 7>>)
    /\ ArgPadding = 1
    /\ i0_size = 2
    /\ \E i \in CallsTo("obs") :
          m_calls[i].obs = Array(<<7>>) /\ Len(m_calls[i].mu.data) = 1

\* ------------------------------------- properties of HospitalAdmissions
HASampled == ha_pc \in {"returned", "raised"}
HAReturned == ha_pc = "returned"
NotARandomVariable(h) == h \in {"duck", "plain"}
LacksCapability(h) == h = "plain"

\* C4, as claimed: the series HospitalAdmissions.sample returns has as
\* many entries as latent_infections, whatever the delay's length and the
\* rate, weekday and reporting values the call accepts.
C4_OutputLengthIsInputLength ==
    HAReturned =>
        /\ ha_out.latent_hospital_admissions.kind = "array"
        /\ Len(ha_out.latent_hospital_admissions.data) = Len(ha_in.I.data)

\* sum over tau in lo..hi of d[tau] * r * I[t - tau], indices from 0.
RECURSIVE RenewalSum(_, _, _, _, _, _)
RenewalSum(d, r, I, t, lo, hi) ==
    IF lo > hi THEN 0
    ELSE d[lo + 1] * r * I[t - lo + 1] + RenewalSum(d, r, I, t, lo + 1, hi)

\* C5: with a scalar rate r, a delay array d of m entries, scalar weekday
\* effect w and reporting probability p, and n latent infections I, sample
\* returns (r, H) with H[t] = w * p * sum over tau in 0..min(t, m-1) of
\* d[tau] * r * I[t - tau] for t in 0..n-1.  So d = [1], w = p = 1 give
\* H = r * I; and d = [0.5, 0.5], r = 0.1, I = [100, 100, 100] give the rate
\* 0.1 and H = [5, 10, 10]: with d in halves ([1, 1]) and r in tenths (1),
\* H in twentieths is [100, 200, 200].
C5_TruncatedRenewalSum ==
    (HAReturned /\ ha_in.r.kind = "scalar" /\ ha_in.w.kind = "scalar"
                /\ ha_in.p.kind = "scalar") =>
        LET r == ha_in.r.data[1]
            w == ha_in.w.data[1]
            p == ha_in.p.data[1]
            d == ha_in.d.data
            I == ha_in.I.data
            H == ha_out.latent_hospital_admissions.data
        IN  /\ ha_out.infection_hosp_rate = ha_in.r
            /\ ha_out.latent_hospital_admissions.kind = "array"
            /\ Len(H) = Len(I)
            /\ \A t \in 0..(Len(I) - 1) :
                  H[t + 1] = w * p * RenewalSum(d, r, I, t, 0, Min(t, Len(d) - 1))
            /\ (d = <<1>> /\ w = 1 /\ p = 1) =>
                  \A t \in 1..Len(I) : H[t] = r * I[t]
            /\ (d = <<1, 1>> /\ r = 1 /\ w = 1 /\ p = 1 /\ I = <<100, 100, 100>>) =>
                  H = <<100, 200, 200>>

C5_Witness ==
    /\ HAReturned
    /\ ha_in.I = Array(<<100, 100, 100>>)
    /\ ha_in.d = Array(<<1, 1>>)
    /\ ha_in.r = Scalar(1)
    /\ ha_in.w = Scalar(1)
    /\ ha_in.p = Scalar(1)
    /\ ha_out.infection_hosp_rate = Scalar(1)
    /\ ha_out.latent_hospital_admissions = Array(<<100, 200, 200>>)

\* C7, as claimed: a HospitalAdmissions given any one of its four handles
\* (rate, delay, weekday effect, reporting probability) without the
\* stochastic-process capability fails at construction.
C7_AllFourCheckedAtConstruction ==
    (ha_pc # "new" /\ \/ LacksCapability(ha_ctor_args.rate)
                      \/ LacksCapability(ha_ctor_args.delay)
                      \/ LacksCapability(ha_ctor_args.dow)
                      \/ LacksCapability(ha_ctor_args.prob))
        => ha_pc = "ctor_failed"

\* C7, amended: the rate, weekday-effect and reporting-probability handles
\* are checked at construction, which fails when one of them is no
\* RandomVariable; the delay handle is not: whatever it is, construction
\* succeeds when the other three pass, and with a delay handle that lacks
\* the capability it is every sample call that fails, having registered
\* nothing.
C7_ThreeCheckedDelayDeferred ==
    ha_pc # "new" =>
        /\ (\/ NotARandomVariable(ha_ctor_args.rate)
            \/ NotARandomVariable(ha_ctor_args.dow)
            \/ NotARandomVariable(ha_ctor_args.prob)) <=> ha_pc = "ctor_failed"
        /\ ha_pc # "ctor_failed" =>
              /\ ha_rvs.delay = ha_ctor_args.delay
              /\ IsRandomVariable(ha_rvs.rate)
              /\ IsRandomVariable(ha_rvs.dow)
              /\ IsRandomVariable(ha_rvs.prob)
        /\ (HASampled /\ LacksCapability(ha_ctor_args.delay)) =>
              /\ ha_pc = "raised"
              /\ ha_out.err \in {"AttributeError", "TypeError"}
              /\ ha_registered = <<>>

C7_Witness ==
    /\ ha_pc = "raised"
    /\ LacksCapability(ha_ctor_args.delay)
    /\ ha_ctor_args.dow = "None"
    /\ ha_out.err = "AttributeError"
    /\ ha_registered = <<>>

====
